---- MODULE Spec2Model ----
(***************************************************************************)
(* The widget kernel of UtilityCanvas: RoundedGradientButton,              *)
(* RoundedDropdown and RoundedSlider of desktop_app/vocal_canvas_desktop.py *)
(* and the RoundedGradientButton of windows_app/vocal_canvas_windows.py,   *)
(* as state machines driven by Tk events and by the calls of the hosting   *)
(* application.  One control instance is followed at a time (widget).      *)
(***************************************************************************)
EXTENDS Integers, Sequences, FiniteSets, TLC

\* ------------------------------------------------------------------ bounds
\* Longest candidate list handed to a Dropdown.
MaxValues == 2
\* Events kept in the press-cycle log of a Button.
MaxCycle == 4
\* Largest slider value of the bounded ranges.
MaxRate == 2
\* Largest width and height of a rect handed to the painter on its own.
MaxSide == 6
\* Largest corner radius requested from the painter on its own.
MaxRadius == 4

\* ----------------------------------------------------------- small helpers
Max2(a, b) == IF a >= b THEN a ELSE b
Min2(a, b) == IF a <= b THEN a ELSE b
Range(s) == {s[i] : i \in 1..Len(s)}

\* Widget sizes <<winfo_width, winfo_height>>: too narrow or too flat to be
\* painted by the desktop variant, and one that every variant paints.
Sizes == {<<6, 20>>, <<20, 6>>, <<20, 20>>}

\* Pointer positions <<x, y>> of a release, relative to a widget of size
\* w x h: on and just beyond each edge of the widget.
Points(w, h) == {<<-1, 0>>, <<0, -1>>, <<0, 0>>, <<w, h>>, <<w + 1, h>>, <<w, h + 1>>}

\* The control classes of the two desktop applications.
Controls == {<<"Button", "desktop">>, <<"Button", "windows">>,
             <<"Dropdown", "desktop">>, <<"Slider", "desktop">>}

\* ------------------------------------------------------------------- state
VARIABLES
    widget,     \* the control instance followed: "Button", "Dropdown", "Slider"
    platform,   \* "desktop" or "windows": which source file the control is from
    ev,         \* the event or call handled last
    cycle,      \* Button: events handled since the last accepted press
    button,     \* RoundedGradientButton instance
    dropdown,   \* RoundedDropdown instance, its StringVar, its popup and its host
    slider,     \* RoundedSlider instance and its IntVar
    card,       \* RoundedGradientCard instance: its canvas items and content window
    paint,      \* the painter's last call: arguments and what it drew
    geometry,   \* a popup's placement: what _open_popup reads and where it puts the shell
    app         \* DesktopApp / WindowsTTSApp: its buttons, rate slider and voice dropdown

vars == <<widget, platform, ev, cycle, button, dropdown, slider, card, paint, geometry, app>>

\* The record of an event: kind, pointer position, mouse button number,
\* boolean argument, list argument, and the widget a host-level click hit.
Event(kind, x, y, num, on, list) ==
    [kind |-> kind, x |-> x, y |-> y, num |-> num, on |-> on, list |-> list,
     target |-> "none"]
NoEvent == Event("none", 0, 0, 0, FALSE, <<>>)

\* Strings are sequences of characters; str.strip() removes the whitespace at
\* both ends.
Whitespace == {" "}
RECURSIVE LStrip(_)
LStrip(s) == IF s # <<>> /\ Head(s) \in Whitespace THEN LStrip(Tail(s)) ELSE s
RECURSIVE RStrip(_)
RStrip(s) ==
    IF s # <<>> /\ s[Len(s)] \in Whitespace THEN RStrip(SubSeq(s, 1, Len(s) - 1)) ELSE s
Strip(s) == RStrip(LStrip(s))

\* ================================================================== Button
BtnShadowOffset == 2

Blank == [drawn |-> FALSE, enabled |-> FALSE, hovered |-> FALSE, pressed |-> FALSE]

\* RoundedGradientButton._redraw: what the canvas shows afterwards.
Button_redraw(self) ==
    LET tooSmall ==
            IF platform = "desktop"
            THEN \/ self.width < 8 \/ self.height < 8
                 \/ self.width - 2 - BtnShadowOffset <= 1 + 2
                 \/ self.height - 2 - BtnShadowOffset <= 1 + 2
            ELSE self.width < 4 \/ self.height < 4
    IN  [self EXCEPT !.painted =
            IF tooSmall THEN Blank
            ELSE [drawn |-> TRUE, enabled |-> self.enabled,
                  hovered |-> self.hovered, pressed |-> self.pressed]]

\* Mutant: set_enabled leaves hovered and pressed as they are.
Button_set_enabled_keeps_flags(self, enabled) ==
    Button_redraw([self EXCEPT !.enabled = enabled])

Button_set_enabled(self, enabled) ==
    Button_redraw([self EXCEPT !.enabled = enabled, !.hovered = FALSE, !.pressed = FALSE])

\* DesktopApp._set_busy / WindowsTTSApp._set_busy, as far as it reaches this button.
Button_set_busy(self, busy) == Button_set_enabled(self, ~busy)

\* self._command(): clear_text, a tab switch, or preview_audio / export_audio
\* returning early leave the button alone (busy = FALSE); preview_audio and
\* export_audio with a valid payload run _set_busy(True), render, _set_busy(False).
Button_command(self, busy) ==
    LET called == [self EXCEPT !.calls = self.calls + 1]
    IN  IF busy THEN Button_set_busy(Button_set_busy(called, TRUE), FALSE)
        ELSE called

Button_on_enter(self) ==
    IF ~self.enabled THEN self
    ELSE Button_redraw([self EXCEPT !.hovered = TRUE])

\* Mutant: a pointer-leave clears hovered and keeps the press.
Button_on_leave_keeps_press(self) ==
    Button_redraw([self EXCEPT !.hovered = FALSE])

Button_on_leave(self) ==
    Button_redraw([self EXCEPT !.hovered = FALSE, !.pressed = FALSE])

Button_on_press(self, num) ==
    IF ~self.enabled \/ num # 1 THEN self
    ELSE Button_redraw([self EXCEPT !.pressed = TRUE])

\* Mutant: the command runs on every release inside the bounds.
Button_on_release_any(self, x, y, busy) ==
    IF 0 <= x /\ x <= self.width /\ 0 <= y /\ y <= self.height
    THEN Button_command([self EXCEPT !.pressed = FALSE], busy)
    ELSE [self EXCEPT !.pressed = FALSE]

Button_on_release(self, x, y, busy) ==
    IF ~self.enabled THEN self
    ELSE LET was_pressed == self.pressed
             s1 == Button_redraw([self EXCEPT !.pressed = FALSE])
         IN  IF ~was_pressed THEN s1
             ELSE IF 0 <= x /\ x <= s1.width /\ 0 <= y /\ y <= s1.height
                  THEN Button_command(s1, busy)
                  ELSE s1

\* Mutant: the keyboard invokes the command without asking whether the button
\* is enabled.
Button_on_keyboard_invoke_unguarded(self, busy) == Button_command(self, busy)

Button_on_keyboard_invoke(self, busy) ==
    IF self.enabled THEN Button_command(self, busy) ELSE self

Button_on_resize(self, w, h) ==
    Button_redraw([self EXCEPT !.width = w, !.height = h])

\* Construction: RoundedGradientButton.__init__.  The widget is not mapped yet
\* (Tk reports 1 x 1), so the redraw queued with after_idle paints nothing.
Button_init ==
    [enabled |-> TRUE, hovered |-> FALSE, pressed |-> FALSE,
     width |-> 1, height |-> 1, painted |-> Blank, calls |-> 0]

\* The symbol an event gets in the press-cycle log.
Inside(self, x, y) == 0 <= x /\ x <= self.width /\ 0 <= y /\ y <= self.height

\* The log starts at a press the button accepts and ends with the release.
\* It follows the pointer and set_enabled events; any other event, or one more
\* event than MaxCycle, drops it.
CycleSymbols == {"enter", "leave", "enable", "disable", "release_in", "release_out"}
Logged(self, sym, accepted) ==
    IF accepted THEN <<"press">>
    ELSE IF cycle = <<>> THEN <<>>
    ELSE IF cycle[Len(cycle)] \in {"release_in", "release_out"} THEN <<>>
    ELSE IF sym \notin CycleSymbols \/ Len(cycle) >= MaxCycle THEN <<>>
    ELSE Append(cycle, sym)

\* A handler starts with no command invocation counted.
Fresh(self) == [self EXCEPT !.calls = 0]

ButtonStep(e, sym, accepted, next) ==
    /\ widget = "Button"
    /\ ev' = e
    /\ cycle' = Logged(button, sym, accepted)
    /\ button' = next
    /\ UNCHANGED <<widget, platform, dropdown, slider, card, paint, geometry, app>>

ButtonSetEnabled ==
    \E on \in BOOLEAN :
        ButtonStep(Event("set_enabled", 0, 0, 0, on, <<>>),
                   IF on THEN "enable" ELSE "disable", FALSE,
                   Button_set_enabled(Fresh(button), on))

ButtonEnter ==
    ButtonStep(Event("enter", 0, 0, 0, FALSE, <<>>), "enter", FALSE,
               Button_on_enter(Fresh(button)))

ButtonLeave ==
    ButtonStep(Event("leave", 0, 0, 0, FALSE, <<>>), "leave", FALSE,
               Button_on_leave(Fresh(button)))

ButtonPress ==
    \E num \in 1..3 :
        ButtonStep(Event("press", 0, 0, num, FALSE, <<>>), "press_ignored",
                   button.enabled /\ num = 1,
                   Button_on_press(Fresh(button), num))

ButtonRelease ==
    \E p \in Points(button.width, button.height), busy \in BOOLEAN :
        ButtonStep(Event("release", p[1], p[2], 1, busy, <<>>),
                   IF Inside(button, p[1], p[2]) THEN "release_in" ELSE "release_out", FALSE,
                   Button_on_release(Fresh(button), p[1], p[2], busy))

ButtonKey ==
    \E busy \in BOOLEAN :
        ButtonStep(Event("key", 0, 0, 0, busy, <<>>), "key", FALSE,
                   Button_on_keyboard_invoke(Fresh(button), busy))

ButtonResize ==
    \E sz \in Sizes :
        ButtonStep(Event("resize", sz[1], sz[2], 0, FALSE, <<>>), "resize", FALSE,
                   Button_on_resize(Fresh(button), sz[1], sz[2]))

\* ================================================================ Dropdown
\* Voice names as parse_voices yields them: stripped, non-empty, distinct.
Daniel == <<"D">>
Samantha == <<"S">>
Alex == <<"A">>
Names == {Daniel, Samantha, Alex}

\* The voices of the system, in the order parse_voices reports them.
Voices == <<Daniel, Samantha, Alex>>

\* The subsequence of Voices at the positions in idx.
RECURSIVE Pick(_, _)
Pick(idx, i) ==
    IF i > Len(Voices) THEN <<>>
    ELSE IF i \in idx THEN <<Voices[i]>> \o Pick(idx, i + 1)
    ELSE Pick(idx, i + 1)

\* Candidate lists: the sublists of Voices of at most MaxValues entries.
ValueLists ==
    {Pick(idx, 1) : idx \in {I \in SUBSET (1..Len(Voices)) : Cardinality(I) <= MaxValues}}

\* Texts the bound StringVar may hold when the Dropdown is constructed.
Texts == Names \cup {<<>>, <<" ">>, <<" ", "S">>}

DBlank == [drawn |-> FALSE, enabled |-> FALSE, hovered |-> FALSE, pressed |-> FALSE,
           open |-> FALSE, value |-> <<>>]

\* The value of the Dropdown as the code reads it: self.variable.get().strip().
Dropdown_value(self) == Strip(self.variable)

\* RoundedDropdown._redraw: what the canvas shows afterwards.
DropdownShadowOffset == 2
Dropdown_redraw(self) ==
    LET tooSmall ==
            \/ self.width < 16 \/ self.height < 16
            \/ self.width - 2 - DropdownShadowOffset <= 1 + 2
            \/ self.height - 2 - DropdownShadowOffset <= 1 + 2
    IN  [self EXCEPT !.painted =
            IF tooSmall THEN DBlank
            ELSE [drawn |-> TRUE, enabled |-> self.enabled, hovered |-> self.hovered,
                  pressed |-> self.pressed, open |-> self.popup # "None",
                  value |-> Dropdown_value(self)]]

\* tk.StringVar.set with the write trace installed by __init__ (line 552).
Variable_set(self, text) == Dropdown_redraw([self EXCEPT !.variable = text])

\* Index of the first occurrence of v in l, counted from 0 (list.index).
IndexOf(l, v) == CHOOSE i \in 0..(Len(l) - 1) :
                    l[i + 1] = v /\ \A j \in 0..(i - 1) : l[j + 1] # v

\* tk.Listbox.nearest: the row closest to y (rows are one unit high, the view
\* starts at the top), -1 when the listbox is empty.
Nearest(rows, y) == IF Len(rows) = 0 THEN -1 ELSE Max2(0, Min2(Len(rows) - 1, y))

\* Mutant: the open listbox keeps the rows it was filled with.
Dropdown_refresh_listbox_stale(self) == self

Dropdown_refresh_listbox(self) ==
    IF self.listbox = "None" THEN self
    ELSE [self EXCEPT !.lb_rows = self.values, !.lb_sel = -1]

\* Mutant: close_popup destroys the popup and leaves the host's listener bound.
Dropdown_close_popup_keeps_listener(self) ==
    LET s1 == [self EXCEPT
                 !.host_popups = IF self.popup # "None" THEN self.host_popups - 1
                                 ELSE self.host_popups,
                 !.popup = "None",
                 !.listbox = "None",
                 !.lb_rows = <<>>,
                 !.lb_sel = -1,
                 !.root_click_bindid = "None"]
    IN  IF s1.exists THEN Dropdown_redraw(s1) ELSE s1

Dropdown_close_popup(self) ==
    LET s1 == [self EXCEPT
                 !.host_popups = IF self.popup # "None" THEN self.host_popups - 1
                                 ELSE self.host_popups,
                 !.popup = "None",
                 !.listbox = "None",
                 !.lb_rows = <<>>,
                 !.lb_sel = -1]
        s2 == [s1 EXCEPT
                 !.host_binds = IF self.root_click_bindid # "None" THEN self.host_binds - 1
                                ELSE self.host_binds,
                 !.root_click_bindid = "None"]
    IN  IF s2.exists THEN Dropdown_redraw(s2) ELSE s2

\* Mutant: _open_popup without the test for an empty candidate list.
Dropdown_open_popup_any_list(self) ==
    IF ~self.enabled \/ self.popup # "None" THEN self
    ELSE Dropdown_redraw([self EXCEPT
             !.host_popups = self.host_popups + 1,
             !.lb_rows = self.values,
             !.lb_sel = -1,
             !.popup = "shell",
             !.listbox = "listbox",
             !.host_binds = self.host_binds + 1,
             !.root_click_bindid = "funcid"])

Dropdown_open_popup(self) ==
    IF ~self.enabled \/ self.values = <<>> \/ self.popup # "None" THEN self
    ELSE LET selected == Dropdown_value(self)
         IN  Dropdown_redraw([self EXCEPT
                 !.host_popups = self.host_popups + 1,
                 !.lb_rows = self.values,
                 !.lb_sel = IF selected \in Range(self.values)
                            THEN IndexOf(self.values, selected) ELSE -1,
                 !.popup = "shell",
                 !.listbox = "listbox",
                 !.host_binds = self.host_binds + 1,
                 !.root_click_bindid = "funcid"])

\* Mutant: activation always tries to open.
Dropdown_toggle_popup_opens(self) == Dropdown_open_popup(self)

Dropdown_toggle_popup(self) ==
    IF self.popup # "None" THEN Dropdown_close_popup(self) ELSE Dropdown_open_popup(self)

\* Mutant: set_values replaces the candidates and keeps the selection.
Dropdown_set_values_keeps_selection(self, list) ==
    Dropdown_redraw(Dropdown_refresh_listbox([self EXCEPT !.values = list]))

Dropdown_set_values(self, list) ==
    LET s1 == [self EXCEPT !.values = list]
        selected == Dropdown_value(s1)
        s2 == IF selected # <<>> /\ selected \notin Range(s1.values)
              THEN Variable_set(s1, <<>>) ELSE s1
    IN  Dropdown_redraw(Dropdown_refresh_listbox(s2))

\* Mutant: set_enabled leaves an open popup open.
Dropdown_set_enabled_keeps_popup(self, enabled) ==
    Dropdown_redraw([self EXCEPT !.enabled = enabled, !.hovered = FALSE, !.pressed = FALSE])

\* Mutant: set_enabled clears hovered and pressed only when it disables.
Dropdown_set_enabled_on_keeps_flags(self, enabled) ==
    LET s1 == IF enabled THEN [self EXCEPT !.enabled = enabled]
              ELSE [self EXCEPT !.enabled = enabled, !.hovered = FALSE, !.pressed = FALSE]
        s2 == IF ~enabled THEN Dropdown_close_popup(s1) ELSE s1
    IN  Dropdown_redraw(s2)

Dropdown_set_enabled(self, enabled) ==
    LET s1 == [self EXCEPT !.enabled = enabled, !.hovered = FALSE, !.pressed = FALSE]
        s2 == IF ~enabled THEN Dropdown_close_popup(s1) ELSE s1
    IN  Dropdown_redraw(s2)

\* <Destroy>: Tk has marked the widget dead when the binding runs.
Dropdown_on_destroy(self) == Dropdown_close_popup([self EXCEPT !.exists = FALSE])

\* Mutant: a press is accepted and not repainted.
Dropdown_on_press_unpainted(self, num) ==
    IF ~self.enabled \/ num # 1 THEN self
    ELSE [self EXCEPT !.pressed = TRUE]

Dropdown_on_press(self, num) ==
    IF ~self.enabled \/ num # 1 THEN self
    ELSE Dropdown_redraw([self EXCEPT !.pressed = TRUE])

\* Mutant: the bounds test leaves out the right and bottom edge.
Dropdown_on_release_exclusive(self, x, y) ==
    IF ~self.enabled THEN self
    ELSE LET was_pressed == self.pressed
             s1 == Dropdown_redraw([self EXCEPT !.pressed = FALSE])
         IN  IF ~was_pressed THEN s1
             ELSE IF 0 <= x /\ x < s1.width /\ 0 <= y /\ y < s1.height
                  THEN Dropdown_toggle_popup(s1)
                  ELSE s1

Dropdown_on_release(self, x, y) ==
    IF ~self.enabled THEN self
    ELSE LET was_pressed == self.pressed
             s1 == Dropdown_redraw([self EXCEPT !.pressed = FALSE])
         IN  IF ~was_pressed THEN s1
             ELSE IF 0 <= x /\ x <= s1.width /\ 0 <= y /\ y <= s1.height
                  THEN Dropdown_toggle_popup(s1)
                  ELSE s1

Dropdown_on_enter(self) ==
    IF ~self.enabled THEN self
    ELSE Dropdown_redraw([self EXCEPT !.hovered = TRUE])

Dropdown_on_leave(self) ==
    Dropdown_redraw([self EXCEPT !.hovered = FALSE, !.pressed = FALSE])

Dropdown_on_escape(self) == Dropdown_close_popup(self)

Dropdown_on_keyboard_toggle(self) ==
    IF self.enabled THEN Dropdown_toggle_popup(self) ELSE self

Dropdown_on_listbox_hover(self, y) ==
    IF self.listbox = "None" THEN self
    ELSE [self EXCEPT !.lb_sel = Nearest(self.lb_rows, y)]

\* Mutant: Escape on the listbox commits the first row before closing.
Dropdown_on_listbox_escape_commits(self) ==
    LET s1 == IF self.values # <<>> THEN Variable_set(self, self.values[1]) ELSE self
    IN  Dropdown_close_popup(s1)

Dropdown_on_listbox_escape(self) == Dropdown_close_popup(self)

\* Mutant: a selection stores the value and leaves the popup open.
Dropdown_on_listbox_select_stays_open(self, y) ==
    IF self.listbox = "None" THEN Dropdown_close_popup(self)
    ELSE LET index == IF self.lb_sel # -1 THEN self.lb_sel ELSE Nearest(self.lb_rows, y)
         IN  IF 0 <= index /\ index < Len(self.values)
             THEN Variable_set(self, self.values[index + 1]) ELSE self

Dropdown_on_listbox_select(self, y) ==
    IF self.listbox = "None" THEN Dropdown_close_popup(self)
    ELSE LET index == IF self.lb_sel # -1 THEN self.lb_sel ELSE Nearest(self.lb_rows, y)
             s1 == IF 0 <= index /\ index < Len(self.values)
                   THEN Variable_set(self, self.values[index + 1]) ELSE self
         IN  Dropdown_close_popup(s1)

\* event.widget of a <Button-1> seen by the host: the dropdown itself, a widget
\* inside the popup, or anything else in the window.
ClickTargets == {"dropdown", "popup_child", "other"}

\* Mutant: the listener spares the popup's descendants only.
Dropdown_on_root_click_closes_own(self, target) ==
    IF self.popup = "None" THEN self
    ELSE IF target = "popup_child" THEN self
    ELSE Dropdown_close_popup(self)

Dropdown_on_root_click(self, target) ==
    IF self.popup = "None" THEN self
    ELSE IF target = "dropdown" THEN self
    ELSE IF target = "popup_child" THEN self
    ELSE Dropdown_close_popup(self)

\* DesktopApp._on_close: close_popup(), then destroy() delivers <Destroy>.
App_on_close(self) == Dropdown_on_destroy(Dropdown_close_popup(self))

\* Construction: RoundedDropdown.__init__ with a candidate list and a StringVar
\* holding some text.  The widget is not mapped yet (Tk reports 1 x 1), so the
\* redraw queued with after_idle paints nothing.
Dropdown_new(l, t) ==
    [enabled |-> TRUE, hovered |-> FALSE, pressed |-> FALSE,
     width |-> 1, height |-> 1, painted |-> DBlank, exists |-> TRUE,
     values |-> l, variable |-> t,
     popup |-> "None", listbox |-> "None", root_click_bindid |-> "None",
     lb_rows |-> <<>>, lb_sel |-> -1, host_popups |-> 0, host_binds |-> 0]
Dropdown_init == {Dropdown_new(l, t) : l \in ValueLists, t \in Texts}

\* The dropdown of a run that follows another control.
NoDropdown == Dropdown_new(<<>>, <<>>)

DropdownStep(e, next) ==
    /\ widget = "Dropdown"
    /\ dropdown.exists
    /\ ev' = e
    /\ dropdown' = next
    /\ UNCHANGED <<widget, platform, cycle, button, slider, card, paint, geometry, app>>

DropdownSetValues ==
    \E l \in ValueLists :
        DropdownStep(Event("set_values", 0, 0, 0, FALSE, l), Dropdown_set_values(dropdown, l))

DropdownSetEnabled ==
    \E on \in BOOLEAN :
        DropdownStep(Event("set_enabled", 0, 0, 0, on, <<>>), Dropdown_set_enabled(dropdown, on))

DropdownDestroy ==
    DropdownStep(Event("destroy", 0, 0, 0, FALSE, <<>>), Dropdown_on_destroy(dropdown))

DropdownAppClose ==
    DropdownStep(Event("app_close", 0, 0, 0, FALSE, <<>>), App_on_close(dropdown))

\* A press on the dropdown runs its own binding, then the host's <Button-1>
\* binding when the outside-click listener is registered.
DropdownPress ==
    \E num \in 1..3 :
        DropdownStep(Event("press", 0, 0, num, FALSE, <<>>),
            LET s1 == Dropdown_on_press(dropdown, num)
            IN  IF num = 1 /\ s1.host_binds > 0
                THEN Dropdown_on_root_click(s1, "dropdown") ELSE s1)

DropdownRelease ==
    \E p \in Points(dropdown.width, dropdown.height) :
        DropdownStep(Event("release", p[1], p[2], 1, FALSE, <<>>),
                     Dropdown_on_release(dropdown, p[1], p[2]))

DropdownEnter ==
    DropdownStep(Event("enter", 0, 0, 0, FALSE, <<>>), Dropdown_on_enter(dropdown))

DropdownLeave ==
    DropdownStep(Event("leave", 0, 0, 0, FALSE, <<>>), Dropdown_on_leave(dropdown))

DropdownEscape ==
    DropdownStep(Event("escape", 0, 0, 0, FALSE, <<>>), Dropdown_on_escape(dropdown))

DropdownKey ==
    DropdownStep(Event("key", 0, 0, 0, FALSE, <<>>), Dropdown_on_keyboard_toggle(dropdown))

DropdownResize ==
    \E sz \in Sizes :
        DropdownStep(Event("resize", sz[1], sz[2], 0, FALSE, <<>>),
                     Dropdown_redraw([dropdown EXCEPT !.width = sz[1], !.height = sz[2]]))

\* The listbox receives events only while its widget is alive.
ListboxHover ==
    /\ dropdown.host_popups > 0
    /\ \E y \in -1..MaxValues :
        DropdownStep(Event("listbox_hover", 0, y, 0, FALSE, <<>>),
                     Dropdown_on_listbox_hover(dropdown, y))

ListboxEscape ==
    /\ dropdown.host_popups > 0
    /\ DropdownStep(Event("listbox_escape", 0, 0, 0, FALSE, <<>>),
                    Dropdown_on_listbox_escape(dropdown))

\* <ButtonRelease-1>, <Double-Button-1> and <Return> on the listbox.
SelectBindings == {"release", "double", "return"}

ListboxSelect ==
    /\ dropdown.host_popups > 0
    /\ \E y \in -1..MaxValues, via \in SelectBindings :
        DropdownStep([Event("listbox_select", 0, y, 0, FALSE, <<>>) EXCEPT !.target = via],
                     Dropdown_on_listbox_select(dropdown, y))

\* A press on a widget other than the dropdown, seen by the host's listener.
RootClick ==
    /\ dropdown.host_binds > 0
    /\ \E target \in ClickTargets \ {"dropdown"} :
        DropdownStep([Event("root_click", 0, 0, 1, FALSE, <<>>) EXCEPT !.target = target],
                     Dropdown_on_root_click(dropdown, target))

\* ================================================================== Slider
\* Slider sizes <<winfo_width, winfo_height>>: too narrow and too flat to be
\* painted, and one that is painted.
SliderSizes == {<<24, 20>>, <<32, 10>>, <<32, 20>>}

SBlank == [drawn |-> FALSE, enabled |-> FALSE, value |-> 0, value_x |-> 0]

\* RoundedSlider._track_bounds: left and right end of the track.
TrackLeft == 12
Slider_track_right(self) == Max2(TrackLeft + 1, Max2(30, self.width) - 12)

Slider_clamp_value(self, value) == Max2(self.min_value, Min2(self.max_value, value))

\* int(): truncation toward zero of the quotient num / den, den > 0.
Trunc(num, den) == IF num >= 0 THEN num \div den ELSE -((-num) \div den)

\* round(): the quotient num / den, den > 0, rounded to the nearest integer,
\* a tie going to the even neighbour.
RoundHalfEven(num, den) ==
    LET q == num \div den
        rem == num - q * den
    IN  IF 2 * rem < den THEN q
        ELSE IF 2 * rem > den THEN q + 1
        ELSE IF q % 2 = 0 THEN q ELSE q + 1

Slider_value_to_x(self, value) ==
    LET right == Slider_track_right(self)
        span == Max2(1, self.max_value - self.min_value)
    IN  TrackLeft + Trunc((right - TrackLeft) * (Slider_clamp_value(self, value) - self.min_value),
                          span)

\* Mutant: _x_to_value with neither the ratio nor the result clamped.
Slider_x_to_value_unclamped(self, x) ==
    LET right == Slider_track_right(self)
        d == Max2(1, right - TrackLeft)
    IN  self.min_value + RoundHalfEven((x - TrackLeft) * (self.max_value - self.min_value), d)

Slider_x_to_value(self, x) ==
    LET right == Slider_track_right(self)
        d == Max2(1, right - TrackLeft)
        n == Max2(0, Min2(d, x - TrackLeft))
    IN  Slider_clamp_value(self,
            self.min_value + RoundHalfEven(n * (self.max_value - self.min_value), d))

\* RoundedSlider._redraw: what the canvas shows afterwards.
Slider_redraw(self) ==
    [self EXCEPT !.painted =
        IF self.width < 30 \/ self.height < 14 THEN SBlank
        ELSE LET value == Slider_clamp_value(self, self.variable)
             IN  [drawn |-> TRUE, enabled |-> self.enabled, value |-> value,
                  value_x |-> Slider_value_to_x(self, value)]]

\* tk.IntVar.set with the write trace installed by __init__ (line 946).
IntVar_set(self, value) ==
    Slider_redraw([self EXCEPT !.variable = value, !.writes = self.writes + 1])

\* Mutant: set_enabled leaves a drag in progress.
Slider_set_enabled_keeps_drag(self, enabled) ==
    Slider_redraw([self EXCEPT !.enabled = enabled])

Slider_set_enabled(self, enabled) ==
    Slider_redraw([self EXCEPT !.enabled = enabled, !.dragging = FALSE])

Slider_set_from_x(self, x) ==
    IF ~self.enabled THEN self
    ELSE LET new_value == Slider_x_to_value(self, x)
         IN  IF new_value # self.variable THEN IntVar_set(self, new_value)
             ELSE Slider_redraw(self)

\* Mutant: pointer-down starts a drag without asking whether the slider is
\* enabled.
Slider_on_pointer_down_unguarded(self, x) ==
    Slider_set_from_x([self EXCEPT !.dragging = TRUE], x)

Slider_on_pointer_down(self, x) ==
    IF ~self.enabled THEN self
    ELSE Slider_set_from_x([self EXCEPT !.dragging = TRUE], x)

\* Mutant: pointer motion sets the value whether or not a drag is in progress.
Slider_on_pointer_move_hover(self, x) ==
    IF ~self.enabled THEN self
    ELSE Slider_set_from_x(self, x)

Slider_on_pointer_move(self, x) ==
    IF ~self.enabled \/ ~self.dragging THEN self
    ELSE Slider_set_from_x(self, x)

Slider_on_pointer_up(self) == [self EXCEPT !.dragging = FALSE]

\* Construction: RoundedSlider.__init__ with a range and an IntVar holding some
\* value.  The widget is not mapped yet (Tk reports 1 x 1), so the redraw queued
\* with after_idle paints nothing.
Slider_new(lo, hi, v) ==
    [enabled |-> TRUE, dragging |-> FALSE, width |-> 1, height |-> 1,
     painted |-> SBlank,
     min_value |-> lo, max_value |-> hi, variable |-> v, writes |-> 0]
Slider_init ==
    {Slider_new(lo, hi, v) : lo \in 0..MaxRate, hi \in 0..MaxRate, v \in -1..(MaxRate + 1)}

\* The slider of a run that follows another control.
NoSlider == Slider_new(0, 1, 0)

\* Pointer x positions: from left of the track to right of it.
PointerXs(self) == (TrackLeft - 2)..(Slider_track_right(self) + 2)

SliderStep(e, next) ==
    /\ widget = "Slider"
    /\ ev' = e
    /\ slider' = next
    /\ UNCHANGED <<widget, platform, cycle, button, dropdown, card, paint, geometry, app>>

SliderFresh(self) == [self EXCEPT !.writes = 0]

SliderSetEnabled ==
    \E on \in BOOLEAN :
        SliderStep(Event("set_enabled", 0, 0, 0, on, <<>>),
                   Slider_set_enabled(SliderFresh(slider), on))

SliderPointerDown ==
    \E x \in PointerXs(slider) :
        SliderStep(Event("pointer_down", x, 0, 1, FALSE, <<>>),
                   Slider_on_pointer_down(SliderFresh(slider), x))

SliderPointerMove ==
    \E x \in PointerXs(slider) :
        SliderStep(Event("pointer_move", x, 0, 1, FALSE, <<>>),
                   Slider_on_pointer_move(SliderFresh(slider), x))

SliderPointerUp ==
    SliderStep(Event("pointer_up", 0, 0, 1, FALSE, <<>>),
               Slider_on_pointer_up(SliderFresh(slider)))

SliderResize ==
    \E sz \in SliderSizes :
        SliderStep(Event("resize", sz[1], sz[2], 0, FALSE, <<>>),
                   Slider_redraw([SliderFresh(slider) EXCEPT !.width = sz[1], !.height = sz[2]]))

\* The application writes the IntVar it shares with the slider.
SliderVariableWrite ==
    \E v \in -1..(MaxRate + 1) :
        SliderStep(Event("variable_write", v, 0, 0, FALSE, <<>>),
                   IntVar_set(SliderFresh(slider), v))

\* --------------------------------------------------------- the rate slider
\* DesktopApp's speech-rate slider: RoundedSlider(variable=rate_var,
\* min_value=MIN_RATE, max_value=MAX_RATE) with rate_var = IntVar(value=170).
MIN_RATE == 80
MAX_RATE == 400
RateInitial == 170
Rate_init == Slider_new(MIN_RATE, MAX_RATE, RateInitial)

\* Widths the grid may give the slider: one whose track is exactly as long as
\* the range is wide, and a wider one.  Before it is mapped the slider is 1 x 1
\* and works with the shortest track.
RateSizes == {<<344, 30>>, <<500, 30>>}

RateResize ==
    \E sz \in RateSizes :
        SliderStep(Event("resize", sz[1], sz[2], 0, FALSE, <<>>),
                   Slider_redraw([SliderFresh(slider) EXCEPT !.width = sz[1], !.height = sz[2]]))

\* A pointer-down at the x position the slider paints the value v at.
RatePointerDownAtValue ==
    \E v \in slider.min_value..slider.max_value :
        LET x == Slider_value_to_x(slider, v)
        IN  SliderStep(Event("pointer_down", x, 0, 1, FALSE, <<>>),
                       Slider_on_pointer_down(SliderFresh(slider), x))

\* ================================================================= painter
\* Colours as <<red, green, blue>>, what _hex_to_rgb parses a "#rrggbb" into.
CARD_TOP == <<5, 101, 164>>
CARD_BOTTOM == <<0, 58, 102>>
BORDER == <<0, 115, 158>>
SHADOW_COLOR == <<0, 0, 0>>

\* _rgb_to_hex: each channel clamped into 0..255.
Rgb_to_hex(rgb) == [i \in 1..3 |-> Max2(0, Min2(255, rgb[i]))]

\* _blend(color_a, color_b, t) for t = num / den, den > 0: t clamped into
\* [0, 1], each channel int(a + (b - a) * t).
Blend(color_a, color_b, num, den) ==
    LET n == Max2(0, Min2(den, num))
    IN  Rgb_to_hex([i \in 1..3 |->
            (color_a[i] * den + (color_b[i] - color_a[i]) * n) \div den])

\* The least k with k * k >= n: math.sqrt rounded up.
CeilSqrt(n) == CHOOSE k \in 0..n : k * k >= n /\ (k = 0 \/ (k - 1) * (k - 1) < n)

\* int(_rounded_inset(y, height, radius)): how far row y is inset by the arc.
Rounded_inset(y, height, radius) ==
    IF radius <= 0 THEN 0
    ELSE LET lower_bound == height - radius
         IN  IF y < radius
             THEN radius - CeilSqrt(Max2(0, radius * radius - (radius - y) * (radius - y)))
             ELSE IF y > lower_bound
             THEN radius - CeilSqrt(Max2(0, radius * radius - (y - lower_bound) * (y - lower_bound)))
             ELSE 0

\* A canvas item: create_line, create_arc (start is its start angle) or
\* create_rectangle.
Item(op, x1, y1, x2, y2, color, width, start) ==
    [op |-> op, x1 |-> x1, y1 |-> y1, x2 |-> x2, y2 |-> y2,
     color |-> color, width |-> width, start |-> start]

\* _draw_rounded_outline: the items it creates.  The desktop file returns at
\* once for width <= 0; the Windows file has no such test.
Draw_rounded_outline(x1, y1, x2, y2, radius, color, width) ==
    IF platform = "desktop" /\ width <= 0 THEN <<>>
    ELSE IF radius <= 0 THEN <<Item("rectangle", x1, y1, x2, y2, color, width, 0)>>
    ELSE LET r == radius
         IN  << Item("arc", x1, y1, x1 + 2 * r, y1 + 2 * r, color, width, 90),
                Item("arc", x2 - 2 * r, y1, x2, y1 + 2 * r, color, width, 0),
                Item("arc", x2 - 2 * r, y2 - 2 * r, x2, y2, color, width, 270),
                Item("arc", x1, y2 - 2 * r, x1 + 2 * r, y2, color, width, 180),
                Item("line", x1 + r, y1, x2 - r, y1, color, width, 0),
                Item("line", x2, y1 + r, x2, y2 - r, color, width, 0),
                Item("line", x1 + r, y2, x2 - r, y2, color, width, 0),
                Item("line", x1, y1 + r, x1, y2 - r, color, width, 0) >>

\* Arguments of _draw_rounded_vertical_gradient.
Args(x1, y1, x2, y2, radius, top_color, bottom_color, border_color, border_width) ==
    [x1 |-> x1, y1 |-> y1, x2 |-> x2, y2 |-> y2, radius |-> radius,
     top_color |-> top_color, bottom_color |-> bottom_color,
     border_color |-> border_color, border_width |-> border_width]

\* Mutant: the requested radius used as it is, only kept from going negative.
EffectiveRadius_unclamped(a) == Max2(0, a.radius)

\* r = int(max(0, min(radius, width // 2, height // 2))).
EffectiveRadius(a) ==
    LET width == Max2(1, a.x2 - a.x1)
        height == Max2(1, a.y2 - a.y1)
    IN  Max2(0, Min2(a.radius, Min2(width \div 2, height \div 2)))

\* The gradient's spans from row on: one line per y in y1..y2 whose ends do
\* not cross.
RECURSIVE GradientRows(_, _)
GradientRows(a, row) ==
    IF a.y1 + row > a.y2 THEN <<>>
    ELSE LET height == Max2(1, a.y2 - a.y1)
             color == Blend(a.top_color, a.bottom_color, row, height)
             inset == Rounded_inset(row, height, EffectiveRadius(a))
             start_x == a.x1 + inset
             end_x == a.x2 - inset
         IN  (IF end_x >= start_x
              THEN <<Item("line", start_x, a.y1 + row, end_x, a.y1 + row, color, 1, 0)>>
              ELSE <<>>) \o GradientRows(a, row + 1)

\* Mutant: the painter moves the spans down by one on a canvas whose control
\* is pressed.
Draw_rounded_vertical_gradient_pressed(canvas, a) ==
    LET b == IF "pressed" \in DOMAIN canvas /\ canvas.pressed THEN [a EXCEPT !.y1 = a.y1 + 1, !.y2 = a.y2 + 1] ELSE a
    IN  [canvas EXCEPT !.items = canvas.items \o GradientRows(b, 0)
            \o Draw_rounded_outline(b.x1, b.y1, b.x2, b.y2, EffectiveRadius(b),
                                    b.border_color, b.border_width)]

\* _draw_rounded_vertical_gradient(canvas, ...): the canvas with the spans and
\* the outline added on top of what it holds.
Draw_rounded_vertical_gradient(canvas, a) ==
    [canvas EXCEPT !.items = canvas.items \o GradientRows(a, 0)
        \o Draw_rounded_outline(a.x1, a.y1, a.x2, a.y2, EffectiveRadius(a),
                                a.border_color, a.border_width)]

\* -------------------------------------------------------------------- Card
\* RoundedGradientCard._redraw: delete("card"), then the shadow and the body
\* when the canvas is large enough, then the content window moved and sized.
\* The Windows file has no shadow and its own threshold and geometry.
Card_redraw(self) ==
    LET cleared == [self EXCEPT !.items = <<>>]
        width == self.width
        height == self.height
    IN  IF platform = "windows"
        THEN IF width < 4 \/ height < 4 THEN cleared
             ELSE [Draw_rounded_vertical_gradient(cleared,
                       Args(1, 1, width - 2, height - 2, self.radius,
                            self.top_color, self.bottom_color, self.border_color, 1))
                   EXCEPT !.content_x = self.padding,
                          !.content_y = self.padding,
                          !.content_width = Max2(1, width - self.padding * 2)]
        ELSE LET x1 == 1
                 y1 == 1
                 x2 == width - 2 - self.shadow_offset
                 y2 == height - 2 - self.shadow_offset
                 shadowed ==
                     IF self.shadow_offset > 0
                     THEN Draw_rounded_vertical_gradient(cleared,
                              Args(x1 + self.shadow_offset, y1 + self.shadow_offset,
                                   x2 + self.shadow_offset, y2 + self.shadow_offset,
                                   self.radius, self.shadow_color, self.shadow_color,
                                   self.shadow_color, 0))
                     ELSE cleared
             IN  IF width < 8 \/ height < 8 THEN cleared
                 ELSE IF x2 <= x1 + 2 \/ y2 <= y1 + 2 THEN cleared
                 ELSE [Draw_rounded_vertical_gradient(shadowed,
                           Args(x1, y1, x2, y2, self.radius,
                                self.top_color, self.bottom_color, self.border_color, 1))
                       EXCEPT !.content_x = x1 + self.padding,
                              !.content_y = y1 + self.padding,
                              !.content_width = Max2(1, (x2 - x1 + 1) - self.padding * 2)]

\* Construction: RoundedGradientCard.__init__.  The content window is created
\* at (padding, padding) with no width and no height of its own (0: the item
\* takes the size its frame requests); the card is not mapped yet (Tk reports
\* 1 x 1), so the redraw queued with after_idle paints nothing.  _redraw
\* configures the item's width only: content_height is never assigned.
Card_new(radius, padding, shadow_offset) ==
    [radius |-> radius, padding |-> padding, shadow_offset |-> Max2(0, shadow_offset),
     top_color |-> CARD_TOP, bottom_color |-> CARD_BOTTOM, border_color |-> BORDER,
     shadow_color |-> SHADOW_COLOR,
     width |-> 1, height |-> 1, items |-> <<>>,
     content_x |-> padding, content_y |-> padding, content_width |-> 0,
     content_height |-> 0]

\* The popup shell of a Dropdown (radius 12, padding 6, shadow 2), a card with
\* square corners and no shadow, and the Windows cards, which have no shadow.
Card_init ==
    IF platform = "windows"
    THEN {Card_new(12, 6, 0), Card_new(0, 1, 0)}
    ELSE {Card_new(12, 6, 2), Card_new(0, 1, 0), Card_new(2, 1, -1)}

\* The card of a run that follows another control.
NoCard == Card_new(0, 0, 0)

\* Card sizes <<winfo_width, winfo_height>> on both sides of the thresholds.
CardSizes == {<<3, 12>>, <<6, 6>>, <<7, 12>>, <<9, 9>>, <<12, 7>>, <<12, 12>>}

CardResize ==
    /\ widget = "Card"
    /\ \E sz \in CardSizes :
        /\ ev' = Event("resize", sz[1], sz[2], 0, FALSE, <<>>)
        /\ card' = Card_redraw([card EXCEPT !.width = sz[1], !.height = sz[2]])
    /\ UNCHANGED <<widget, platform, cycle, button, dropdown, slider, paint, geometry, app>>

\* --------------------------------------------------- the painter on its own
\* Two canvases that hold the same items and belong to controls in different
\* states, and the arguments of one call of the painter made on each.
Canvas(enabled, hovered, pressed, items) ==
    [enabled |-> enabled, hovered |-> hovered, pressed |-> pressed, items |-> items]

\* What a canvas may hold before the call: nothing, or an earlier span.
PriorItems == {<<>>, <<Item("line", 1, 1, 2, 1, SHADOW_COLOR, 1, 0)>>}

PaintRects == {<<1, 1, 1 + w, 1 + h>> : w \in 0..MaxSide, h \in 0..MaxSide}

PaintArgs ==
    {Args(rc[1], rc[2], rc[3], rc[4], radius, CARD_TOP, CARD_BOTTOM, BORDER, bw) :
        rc \in PaintRects, radius \in -1..MaxRadius, bw \in 0..1}

Paint_new(a, prior, other) ==
    [args |-> a, before |-> prior, done |-> FALSE,
     first |-> Canvas(TRUE, FALSE, FALSE, prior),
     second |-> Canvas(other, other, other, prior)]

Paint_init == {Paint_new(a, prior, other) : a \in PaintArgs, prior \in PriorItems,
                                            other \in BOOLEAN}

\* The paint record of a run that follows a control.
NoPaint == Paint_new(Args(0, 0, 0, 0, 0, SHADOW_COLOR, SHADOW_COLOR, SHADOW_COLOR, 0), <<>>, FALSE)

\* The painter is called with the same arguments on both canvases.
Paint ==
    /\ widget = "Painter"
    /\ ~paint.done
    /\ ev' = Event("paint", 0, 0, 0, FALSE, <<>>)
    /\ paint' = [paint EXCEPT
                   !.done = TRUE,
                   !.first = Draw_rounded_vertical_gradient(paint.first, paint.args),
                   !.second = Draw_rounded_vertical_gradient(paint.second, paint.args)]
    /\ UNCHANGED <<widget, platform, cycle, button, dropdown, slider, card, geometry, app>>

\* ------------------------------------------------------------- application
\* DesktopApp and WindowsTTSApp: the Generate, Export and Clear buttons, and in
\* the desktop file the rate slider and the voice dropdown.  (The Windows file
\* uses a ttk.Combobox and a tk.Scale, which _set_busy does not touch.)
AppButtons == {"generate", "export", "clear"}

\* The enabled flags of the controls _set_busy reaches.
App_enabled(self) ==
    [generate |-> self.buttons["generate"].enabled,
     export |-> self.buttons["export"].enabled,
     clear |-> self.buttons["clear"].enabled,
     rate_slider |-> self.rate_slider.enabled,
     voice_combo |-> self.voice_combo.enabled]

\* Mutant: _set_busy leaves the voice dropdown alone.
App_set_busy_skips_combo(self, busy) ==
    LET enabled == ~busy
        btns == [b \in AppButtons |-> Button_set_enabled(self.buttons[b], enabled)]
    IN  IF platform = "desktop"
        THEN [self EXCEPT !.buttons = btns,
                          !.rate_slider = Slider_set_enabled(@, enabled)]
        ELSE [self EXCEPT !.buttons = btns]

App_set_busy(self, busy) ==
    LET enabled == ~busy
        btns == [b \in AppButtons |-> Button_set_enabled(self.buttons[b], enabled)]
    IN  IF platform = "desktop"
        THEN [self EXCEPT !.buttons = btns,
                          !.rate_slider = Slider_set_enabled(@, enabled),
                          !.voice_combo = Dropdown_set_enabled(@, enabled)]
        ELSE [self EXCEPT !.buttons = btns]

App_set_status(self, kind) == [self EXCEPT !.status = kind]

\* render_wav / self._render: the external render, invoked on the thread that
\* runs the caller.  What the controls look like at that moment is kept.
App_render(self) ==
    [self EXCEPT !.renders = @ + 1, !.at_render = App_enabled(self)]

\* _collect_inputs / _collect: the Windows file refuses without an engine.
App_collect(self, payload) ==
    IF platform = "windows" /\ ~self.engine THEN FALSE ELSE payload

\* _set_busy(True), the status, the render in try / except / finally.
App_render_busy(self, raises) ==
    LET busy == App_set_status(App_set_busy(self, TRUE), "loading")
        rendered == App_render(busy)
        told == App_set_status(rendered, IF raises THEN "error" ELSE "success")
    IN  App_set_busy(told, FALSE)

App_preview_audio(self, payload, raises) ==
    LET called == [self EXCEPT !.op = "preview_audio",
                               !.popup_at_call = self.voice_combo.popup # "None"]
    IN  IF ~App_collect(called, payload) THEN called
        ELSE App_render_busy(called, raises)

App_export_audio(self, payload, save_path, raises) ==
    LET called == [self EXCEPT !.op = "export_audio",
                               !.popup_at_call = self.voice_combo.popup # "None"]
    IN  IF ~App_collect(called, payload) THEN called
        ELSE IF ~save_path THEN called
        ELSE App_render_busy(called, raises)

App_clear_text(self) == App_set_status([self EXCEPT !.op = "clear_text"], "idle")

\* The command each button was constructed with.
App_command(self, b, in) ==
    IF b = "generate" THEN App_preview_audio(self, in.payload, in.raises)
    ELSE IF b = "export" THEN App_export_audio(self, in.payload, in.save_path, in.raises)
    ELSE App_clear_text(self)

\* What the user and the environment decide during a command: whether there is
\* a text and a voice, whether the save dialog returns a path, whether the
\* render raises.
AppInputs == [payload : BOOLEAN, save_path : BOOLEAN, raises : BOOLEAN]

\* A handler starts with nothing counted.
AppFresh(self) ==
    [self EXCEPT !.buttons = [b \in AppButtons |-> Fresh(self.buttons[b])],
                 !.renders = 0, !.at_render = App_enabled(self),
                 !.op = "none", !.popup_at_call = FALSE]

\* A button's handler, then the command if the handler invoked it (the
\* invocation is the handler's last statement).
App_after(self, b, next, in) ==
    LET s1 == [self EXCEPT !.buttons[b] = next]
    IN  IF next.calls > 0 THEN App_command(s1, b, in) ELSE s1

\* A press anywhere in the window also reaches the host's <Button-1> listener
\* the open popup installed.
App_on_press(self, b) ==
    LET s1 == [self EXCEPT !.buttons[b] = Button_on_press(self.buttons[b], 1)]
    IN  IF s1.voice_combo.host_binds > 0
        THEN [s1 EXCEPT !.voice_combo = Dropdown_on_root_click(@, "other")]
        ELSE s1

\* Mutant: _load_voices disables nothing when there is no engine.
App_new_all_enabled(engine) ==
    LET btn == Button_on_resize(Button_init, 20, 20)
        off == Button_set_enabled(btn, FALSE)
        noEngine == FALSE
        combo == IF platform = "desktop"
                 THEN Variable_set(Dropdown_set_values(
                          Dropdown_redraw([Dropdown_new(<<>>, <<>>) EXCEPT
                              !.width = 20, !.height = 20]),
                          <<Daniel, Samantha>>), Samantha)
                 ELSE NoDropdown
        rate == IF platform = "desktop"
                THEN Slider_redraw([Rate_init EXCEPT !.width = 344, !.height = 30])
                ELSE NoSlider
    IN  [buttons |-> [b \in AppButtons |->
                        IF noEngine /\ b \in {"generate", "export"} THEN off ELSE btn],
         rate_slider |-> rate, voice_combo |-> combo, engine |-> engine,
         status |-> IF noEngine THEN "error" ELSE "idle",
         renders |-> 0,
         at_render |-> [generate |-> ~noEngine, export |-> ~noEngine, clear |-> TRUE,
                        rate_slider |-> TRUE, voice_combo |-> TRUE],
         op |-> "none", popup_at_call |-> FALSE]

\* Construction and _load_voices.  The buttons, slider and dropdown are mapped
\* at a size their _redraw paints.  Without an engine the Windows file
\* disables Generate and Export.
App_new(engine) ==
    LET btn == Button_on_resize(Button_init, 20, 20)
        off == Button_set_enabled(btn, FALSE)
        noEngine == platform = "windows" /\ ~engine
        combo == IF platform = "desktop"
                 THEN Variable_set(Dropdown_set_values(
                          Dropdown_redraw([Dropdown_new(<<>>, <<>>) EXCEPT
                              !.width = 20, !.height = 20]),
                          <<Daniel, Samantha>>), Samantha)
                 ELSE NoDropdown
        rate == IF platform = "desktop"
                THEN Slider_redraw([Rate_init EXCEPT !.width = 344, !.height = 30])
                ELSE NoSlider
    IN  [buttons |-> [b \in AppButtons |->
                        IF noEngine /\ b \in {"generate", "export"} THEN off ELSE btn],
         rate_slider |-> rate, voice_combo |-> combo, engine |-> engine,
         status |-> IF noEngine THEN "error" ELSE "idle",
         renders |-> 0,
         at_render |-> [generate |-> ~noEngine, export |-> ~noEngine, clear |-> TRUE,
                        rate_slider |-> TRUE, voice_combo |-> TRUE],
         op |-> "none", popup_at_call |-> FALSE]

\* The application of a run that follows a single control.
NoApp ==
    [buttons |-> [b \in AppButtons |-> Button_init],
     rate_slider |-> NoSlider, voice_combo |-> NoDropdown, engine |-> TRUE,
     status |-> "idle", renders |-> 0,
     at_render |-> [generate |-> TRUE, export |-> TRUE, clear |-> TRUE,
                    rate_slider |-> TRUE, voice_combo |-> TRUE],
     op |-> "none", popup_at_call |-> FALSE]

\* ------------------------------------------------------------ popup placement
\* RoundedDropdown.__init__ keeps max(3, max_popup_rows).
\* Mutant: the constructor keeps the value it is given.
Dropdown_max_popup_rows_unfloored(max_popup_rows) == max_popup_rows

Dropdown_max_popup_rows(max_popup_rows) == Max2(3, max_popup_rows)

\* What _open_popup reads before it places the shell: the stored row limit,
\* len(self.values), the dropdown's position in its host (winfo_rootx() -
\* host.winfo_rootx(), winfo_rooty() - host.winfo_rooty()), the dropdown's size
\* and the host's size.  given is the constructor's max_popup_rows argument.
Geometry_new(given, values_len, x, y, width, height, host_width, host_height) ==
    [given |-> given, max_popup_rows |-> Dropdown_max_popup_rows(given),
     values_len |-> values_len, x |-> x, y |-> y, width |-> width, height |-> height,
     host_width |-> host_width, host_height |-> host_height,
     open |-> FALSE, rows |-> 0,
     place_x |-> 0, place_y |-> 0, place_width |-> 0, place_height |-> 0]

\* The arithmetic of _open_popup up to shell.place(x, y, width, height).
Dropdown_place_popup(self) ==
    LET width == Max2(260, self.width)
        rows == Min2(self.max_popup_rows, Max2(1, self.values_len))
        popup_height == (rows * 28) + 16
        x0 == self.x
        y0 == self.y + self.height + 4
        y1 == IF y0 + popup_height > self.host_height - 8
              THEN Max2(8, self.y - popup_height - 4)
              ELSE y0
        x1 == IF x0 + width > self.host_width - 8
              THEN Max2(8, self.host_width - width - 8)
              ELSE x0
        x2 == IF x1 < 8 THEN 8 ELSE x1
    IN  IF self.values_len = 0 \/ self.open THEN self
        ELSE [self EXCEPT !.open = TRUE, !.rows = rows,
                          !.place_x = x2, !.place_y = y1,
                          !.place_width = width, !.place_height = popup_height]

\* close_popup destroys the shell; nothing of its placement is kept.
Dropdown_unplace_popup(self) ==
    [self EXCEPT !.open = FALSE, !.rows = 0,
                 !.place_x = 0, !.place_y = 0, !.place_width = 0, !.place_height = 0]

\* max_popup_rows as given to the constructor: small values, the default (10)
\* and the application's (11).
GivenRows == {1, 2, 3, 4, 10, 11}

\* len(self.values) when the popup opens (an empty list opens nothing).
CandidateCounts == {1, 2, 3, 4, 12}

\* Host windows <<width, height>>: narrow and low ones, a 600 px one, the
\* application's minimum size and its initial size.
HostSizes == {<<200, 100>>, <<270, 600>>, <<600, 600>>, <<860, 620>>, <<980, 710>>}

\* Dropdown widths, and the height the constructor asks for.
DropdownWidths == {180, 300}
DropdownHeight == 34

\* Positions of the dropdown's top-left corner in its host.
DropdownXs == {0, 10, 400, 700}
DropdownYs == {0, 50, 280, 560, 580}

\* A dropdown whose top-left corner lies inside its host window.
Geometry_init ==
    {Geometry_new(g, n, x, y, w, DropdownHeight, hs[1], hs[2]) :
        <<g, n, x, y, w, hs>> \in
            {t \in GivenRows \X CandidateCounts \X DropdownXs \X DropdownYs
                    \X DropdownWidths \X HostSizes :
                t[3] < t[6][1] /\ t[4] < t[6][2]}}

\* The geometry of a run that follows another control.
NoGeometry == Geometry_new(3, 0, 0, 0, 1, 1, 1, 1)

PopupOpen ==
    /\ widget = "Popup"
    /\ ~geometry.open
    /\ ev' = Event("open", 0, 0, 0, FALSE, <<>>)
    /\ geometry' = Dropdown_place_popup(geometry)
    /\ UNCHANGED <<widget, platform, cycle, button, dropdown, slider, card, paint, app>>

PopupClose ==
    /\ widget = "Popup"
    /\ geometry.open
    /\ ev' = Event("close", 0, 0, 0, FALSE, <<>>)
    /\ geometry' = Dropdown_unplace_popup(geometry)
    /\ UNCHANGED <<widget, platform, cycle, button, dropdown, slider, card, paint, app>>

PopupInit ==
    /\ widget = "Popup" /\ platform = "desktop"
    /\ ev = NoEvent
    /\ cycle = <<>>
    /\ button = Button_init
    /\ dropdown = NoDropdown
    /\ slider = NoSlider
    /\ card = NoCard
    /\ paint = NoPaint
    /\ geometry \in Geometry_init
    /\ app = NoApp

PopupNext ==
    \/ PopupOpen
    \/ PopupClose

PopupSpec == PopupInit /\ [][PopupNext]_vars

AppEvent(kind, b, x, y) == [Event(kind, x, y, 1, FALSE, <<>>) EXCEPT !.target = b]

AppStep(e, next) ==
    /\ widget = "App"
    /\ ev' = e
    /\ app' = next
    /\ UNCHANGED <<widget, platform, cycle, button, dropdown, slider, card, paint, geometry>>

AppButtonEnter ==
    \E b \in AppButtons :
        AppStep(AppEvent("enter", b, 0, 0),
                [AppFresh(app) EXCEPT !.buttons[b] = Button_on_enter(@)])

AppButtonLeave ==
    \E b \in AppButtons :
        AppStep(AppEvent("leave", b, 0, 0),
                [AppFresh(app) EXCEPT !.buttons[b] = Button_on_leave(@)])

AppButtonPress ==
    \E b \in AppButtons :
        AppStep(AppEvent("press", b, 0, 0), App_on_press(AppFresh(app), b))

AppButtonRelease ==
    \E b \in AppButtons, p \in {<<0, 0>>, <<-1, 0>>}, in \in AppInputs :
        AppStep(AppEvent("release", b, p[1], p[2]),
                LET self == AppFresh(app)
                IN  App_after(self, b,
                        Button_on_release(self.buttons[b], p[1], p[2], FALSE), in))

AppButtonKey ==
    \E b \in AppButtons, in \in AppInputs :
        AppStep(AppEvent("key", b, 0, 0),
                LET self == AppFresh(app)
                IN  App_after(self, b,
                        Button_on_keyboard_invoke(self.buttons[b], FALSE), in))

\* <Return>, <space> or <Down> on the voice dropdown.
AppComboKey ==
    /\ platform = "desktop"
    /\ AppStep(AppEvent("combo_key", "voice_combo", 0, 0),
               [AppFresh(app) EXCEPT !.voice_combo = Dropdown_on_keyboard_toggle(@)])

AppInit ==
    /\ widget = "App"
    /\ \E p \in {"desktop", "windows"} : platform = p
    /\ ev = NoEvent
    /\ cycle = <<>>
    /\ button = Button_init
    /\ dropdown = NoDropdown
    /\ slider = NoSlider
    /\ card = NoCard
    /\ paint = NoPaint
    /\ geometry = NoGeometry
    /\ \E engine \in BOOLEAN :
          /\ platform = "desktop" => engine
          /\ app = App_new(engine)

AppNext ==
    \/ AppButtonEnter
    \/ AppButtonLeave
    \/ AppButtonPress
    \/ AppButtonRelease
    \/ AppButtonKey
    \/ AppComboKey

AppSpec == AppInit /\ [][AppNext]_vars

PaintInit ==
    /\ \E c \in {"Card", "Painter"} : widget = c
    /\ \E p \in {"desktop", "windows"} : platform = p
    /\ ev = NoEvent
    /\ cycle = <<>>
    /\ button = Button_init
    /\ dropdown = NoDropdown
    /\ slider = NoSlider
    /\ IF widget = "Card" THEN card \in Card_init ELSE card = NoCard
    /\ IF widget = "Painter" THEN paint \in Paint_init ELSE paint = NoPaint
    /\ geometry = NoGeometry
    /\ app = NoApp

PaintNext ==
    \/ CardResize
    \/ Paint

PaintSpec == PaintInit /\ [][PaintNext]_vars

\* The run that follows the application's rate slider.
RateInit ==
    /\ widget = "Slider" /\ platform = "desktop"
    /\ ev = NoEvent
    /\ cycle = <<>>
    /\ button = Button_init
    /\ dropdown = NoDropdown
    /\ slider = Rate_init
    /\ card = NoCard
    /\ paint = NoPaint
    /\ geometry = NoGeometry
    /\ app = NoApp

RateNext ==
    \/ RateResize
    \/ RatePointerDownAtValue
    \/ SliderPointerUp

RateSpec == RateInit /\ [][RateNext]_vars

\* ================================================================== claims
\* The release event e lands inside a widget of the size self has.
ReleaseInside(self, e) == 0 <= e.x /\ e.x <= self.width /\ 0 <= e.y /\ e.y <= self.height

\* A press cycle that completed: an accepted press, then nothing but
\* pointer-enter events, then a release inside the bounds.
CompletedCycle ==
    /\ Len(cycle) >= 2
    /\ cycle[Len(cycle)] = "release_in"
    /\ \A i \in 2..(Len(cycle) - 1) : cycle[i] = "enter"

\* C1: over any sequence of enter, leave, press, release, keyboard and
\* set_enabled events the Button's command is invoked exactly once by a
\* release inside the bounds that completes a press, exactly once by a
\* keyboard activation while enabled, and by no other event: never while the
\* button is disabled, and never a second time for the same press.
C1_CommandOncePerCycle ==
    /\ [][widget = "Button" =>
            button'.calls =
                IF \/ /\ ev'.kind = "release"
                      /\ button.enabled /\ button.pressed
                      /\ ReleaseInside(button, ev')
                   \/ ev'.kind = "key" /\ button.enabled
                THEN 1 ELSE 0]_vars
    /\ [][(widget = "Button" /\ ev'.kind = "release" /\ cycle # <<>>
            /\ cycle[Len(cycle)] \in {"release_in", "release_out"})
            => button'.calls = 0]_vars
    /\ [](widget = "Button" /\ CompletedCycle => button.calls = 1)
    /\ [](widget = "Button" /\ ~button.enabled => button.calls = 0)

C1_Witness ==
    /\ widget = "Button"
    /\ cycle = <<"press", "release_in">>
    /\ ev.kind = "release"
    /\ button.calls = 1

\* C2: a press accepted while enabled, then set_enabled(False), then a release
\* inside the bounds: the command is not invoked.
C2_DisabledMidPress ==
    (widget = "Button" /\ cycle = <<"press", "disable", "release_in">>)
        => button.calls = 0

C2_Witness ==
    /\ widget = "Button"
    /\ cycle = <<"press", "disable", "release_in">>
    /\ ev.kind = "release"
    /\ ~button.enabled

\* Pointer and keyboard events of a Button and of a Dropdown with its listbox.
ButtonInput == {"enter", "leave", "press", "release", "key"}
DropdownInput == {"enter", "leave", "press", "release", "key", "escape",
                  "listbox_hover", "listbox_escape", "listbox_select", "root_click"}
SliderInput == {"pointer_down", "pointer_move", "pointer_up"}

\* C3: while a Button, Dropdown or Slider is disabled, no pointer or keyboard
\* event invokes a callback, opens a popup, or changes the control's value,
\* hovered, pressed or dragging state.
C3_DisabledRejectsInput ==
    /\ [][(widget = "Button" /\ ~button.enabled /\ ev'.kind \in ButtonInput)
            => /\ button'.calls = 0
               /\ button'.enabled = button.enabled
               /\ button'.hovered = button.hovered
               /\ button'.pressed = button.pressed]_vars
    /\ [][(widget = "Dropdown" /\ ~dropdown.enabled /\ ev'.kind \in DropdownInput)
            => /\ dropdown'.popup = "None"
               /\ dropdown'.host_popups = 0
               /\ dropdown'.variable = dropdown.variable
               /\ dropdown'.values = dropdown.values
               /\ dropdown'.enabled = dropdown.enabled
               /\ dropdown'.hovered = dropdown.hovered
               /\ dropdown'.pressed = dropdown.pressed]_vars
    /\ [][(widget = "Slider" /\ ~slider.enabled /\ ev'.kind \in SliderInput)
            => /\ slider'.writes = 0
               /\ slider'.variable = slider.variable
               /\ slider'.enabled = slider.enabled
               /\ slider'.dragging = slider.dragging]_vars

C3_Witness ==
    /\ widget = "Slider"
    /\ ~slider.enabled
    /\ ev.kind = "pointer_down"
    /\ slider.min_value < slider.max_value
    /\ Slider_x_to_value(slider, ev.x) # slider.variable

\* C4: in every reachable state of a Button or Dropdown, enabled = false
\* implies hovered = false and pressed = false.
C4_DisabledClearsFlags ==
    /\ (widget = "Button" /\ ~button.enabled) => (~button.hovered /\ ~button.pressed)
    /\ (widget = "Dropdown" /\ ~dropdown.enabled) => (~dropdown.hovered /\ ~dropdown.pressed)

C4_Witness ==
    /\ widget = "Button"
    /\ cycle = <<"press", "enter", "disable">>
    /\ ~button.enabled /\ ~button.hovered /\ ~button.pressed

\* The event e activates the dropdown self: a release inside the bounds that
\* completes a press, or Return / space / Down, while enabled.
Activates(self, e) ==
    /\ self.enabled
    /\ \/ e.kind = "key"
       \/ e.kind = "release" /\ self.pressed /\ ReleaseInside(self, e)

\* C5: activating a Dropdown whose popup is open closes it and leaves no popup
\* open; activating a closed, enabled Dropdown with a non-empty candidate list
\* opens exactly one popup; at most one popup is open in every reachable state.
C5_Toggle ==
    /\ [][(widget = "Dropdown" /\ Activates(dropdown, ev'))
            => IF dropdown.popup # "None"
               THEN dropdown'.popup = "None" /\ dropdown'.host_popups = 0
               ELSE IF dropdown.values # <<>>
               THEN dropdown'.popup # "None" /\ dropdown'.host_popups = 1
               ELSE dropdown'.popup = "None" /\ dropdown'.host_popups = 0]_vars
    /\ [](dropdown.host_popups <= 1)
    /\ [](dropdown.popup # "None" <=> dropdown.host_popups = 1)

C5_Witness ==
    /\ widget = "Dropdown"
    /\ ev.kind = "release"
    /\ dropdown.popup # "None"
    /\ dropdown.host_popups = 1

\* The event e is one of the close paths of the popup of self.
ClosePath(self, e) ==
    \/ e.kind \in {"listbox_select", "listbox_escape", "escape", "destroy", "app_close"}
    \/ e.kind = "set_enabled" /\ ~e.on
    \/ e.kind = "root_click" /\ e.target = "other"
    \/ Activates(self, e) /\ self.popup # "None"

\* C6: the window-level outside-click listener is registered if and only if
\* the popup is open, and after every close path (selection, Escape, outside
\* click, toggle, set_enabled(False), owner destruction, application close) the
\* popup is gone and no listener remains registered.
C6_ListenerIffPopup ==
    /\ [](/\ dropdown.host_binds = (IF dropdown.popup # "None" THEN 1 ELSE 0)
          /\ dropdown.host_popups = (IF dropdown.popup # "None" THEN 1 ELSE 0)
          /\ (dropdown.root_click_bindid # "None") <=> (dropdown.popup # "None"))
    /\ [][(widget = "Dropdown" /\ ClosePath(dropdown, ev'))
            => /\ dropdown'.popup = "None"
               /\ dropdown'.host_popups = 0
               /\ dropdown'.host_binds = 0
               /\ dropdown'.root_click_bindid = "None"]_vars

C6_Witness ==
    /\ widget = "Dropdown"
    /\ ev.kind = "root_click" /\ ev.target = "other"
    /\ dropdown.popup = "None"
    /\ dropdown.host_binds = 0

\* C7: after set_values(list) the candidate list equals list, and the current
\* value (the bound variable as the dropdown reads it, stripped) is empty if
\* the previous value was not in list and the variable is unchanged otherwise.
C7_SetValues ==
    [][(widget = "Dropdown" /\ ev'.kind = "set_values")
        => /\ dropdown'.values = ev'.list
           /\ IF Dropdown_value(dropdown) \notin Range(ev'.list)
              THEN Dropdown_value(dropdown') = <<>>
              ELSE dropdown'.variable = dropdown.variable]_vars

C7_Witness ==
    /\ widget = "Dropdown"
    /\ ev.kind = "set_values"
    /\ ev.list = <<Daniel, Alex>>
    /\ dropdown.values = <<Daniel, Alex>>
    /\ dropdown.variable = <<>>
    /\ dropdown.painted.drawn

\* C8: in every reachable state of a Dropdown, from construction with any
\* candidate list and initial value onwards, the current value is either empty
\* or a member of the current candidate list.
C8_ValueInCandidates ==
    widget = "Dropdown" =>
        (Dropdown_value(dropdown) = <<>> \/ Dropdown_value(dropdown) \in Range(dropdown.values))

\* C9: after set_enabled(False) on a Dropdown no popup is open, and in every
\* reachable state an open popup implies the Dropdown is enabled.
C9_DisabledHasNoPopup ==
    /\ []((dropdown.popup # "None" \/ dropdown.host_popups > 0) => dropdown.enabled)
    /\ [][(widget = "Dropdown" /\ ev'.kind = "set_enabled" /\ ~ev'.on)
            => dropdown'.popup = "None" /\ dropdown'.host_popups = 0]_vars

C9_Witness ==
    /\ widget = "Dropdown"
    /\ ev.kind = "set_enabled" /\ ~ev.on
    /\ ~dropdown.enabled
    /\ dropdown.values # <<>>
    /\ dropdown.popup = "None"
    /\ dropdown.painted.drawn /\ ~dropdown.painted.open

\* The row a selection event at height y resolves to: the highlighted row, or
\* without one the row nearest to the pointer; -1 when there is no row.
SelectedRow(self, y) == IF self.lb_sel # -1 THEN self.lb_sel ELSE Nearest(self.lb_rows, y)

\* C10: a selection event (click release, double-click or Enter) on a valid
\* row of an open popup sets the Dropdown's value to that row's candidate and,
\* by the time the handler returns, the popup is closed.
C10_SelectSetsAndCloses ==
    [][(/\ widget = "Dropdown" /\ ev'.kind = "listbox_select"
        /\ dropdown.popup # "None"
        /\ 0 <= SelectedRow(dropdown, ev'.y)
        /\ SelectedRow(dropdown, ev'.y) < Len(dropdown.lb_rows))
        => /\ dropdown'.variable = dropdown.lb_rows[SelectedRow(dropdown, ev'.y) + 1]
           /\ dropdown'.popup = "None"
           /\ dropdown'.listbox = "None"
           /\ dropdown'.host_popups = 0]_vars

C10_Witness ==
    /\ widget = "Dropdown"
    /\ ev.kind = "listbox_select" /\ ev.target = "double"
    /\ dropdown.variable = Alex
    /\ dropdown.values = <<Samantha, Alex>>
    /\ dropdown.popup = "None"
    /\ dropdown.host_popups = 0

\* The event e cancels the popup: Escape on the dropdown or on the popup's
\* list, or a press on a widget outside both.
Cancels(e) ==
    \/ e.kind \in {"escape", "listbox_escape"}
    \/ e.kind = "root_click" /\ e.target = "other"

\* C11: cancelling an open popup by Escape (on the dropdown or on the popup
\* list) or by a pointer press outside both the Dropdown and its popup closes
\* the popup and leaves the Dropdown's value and candidate list unchanged.
C11_CancelKeepsValue ==
    [][(widget = "Dropdown" /\ dropdown.popup # "None" /\ Cancels(ev'))
        => /\ dropdown'.popup = "None"
           /\ dropdown'.listbox = "None"
           /\ dropdown'.host_popups = 0
           /\ dropdown'.variable = dropdown.variable
           /\ dropdown'.values = dropdown.values]_vars

C11_Witness ==
    /\ widget = "Dropdown"
    /\ ev.kind = "listbox_escape"
    /\ dropdown.popup = "None"
    /\ dropdown.variable = Alex
    /\ dropdown.values = <<Samantha, Alex>>
    /\ dropdown.painted.drawn /\ ~dropdown.painted.open

\* C12: activating (click or keyboard) an enabled Dropdown whose candidate
\* list is empty is a silent no-op: no popup is opened, no listener is
\* registered, and the value and the list are unchanged.
C12_EmptyListNoOp ==
    [][(widget = "Dropdown" /\ Activates(dropdown, ev')
        /\ dropdown.values = <<>> /\ dropdown.popup = "None")
        => /\ dropdown'.popup = "None"
           /\ dropdown'.listbox = "None"
           /\ dropdown'.host_popups = 0
           /\ dropdown'.host_binds = 0
           /\ dropdown'.root_click_bindid = "None"
           /\ dropdown'.variable = dropdown.variable
           /\ dropdown'.values = <<>>
           /\ dropdown'.enabled]_vars

C12_Witness ==
    /\ widget = "Dropdown"
    /\ ev.kind = "key"
    /\ dropdown.enabled
    /\ dropdown.values = <<>>
    /\ dropdown.popup = "None"
    /\ dropdown.host_binds = 0
    /\ dropdown.variable = <<" ", "S">>

\* C13: for a Slider with min < max and every pointer x given to pointer-down
\* or pointer-drag while enabled, the value written to the bound variable is an
\* integer v with min <= v <= max.
C13_WrittenValueInRange ==
    [][(/\ widget = "Slider" /\ ev'.kind \in {"pointer_down", "pointer_move"}
        /\ slider.enabled /\ slider.min_value < slider.max_value
        /\ slider'.writes > 0)
        => /\ slider'.variable \in slider.min_value..slider.max_value
           /\ slider'.variable = Slider_x_to_value(slider, ev'.x)]_vars

C13_Witness ==
    /\ widget = "Slider"
    /\ ev.kind = "pointer_move" /\ ev.x = TrackLeft - 2
    /\ slider.writes = 1
    /\ slider.min_value = 1 /\ slider.max_value = 2
    /\ slider.variable = 1

\* C14: in every reachable state of a Slider, from construction with any
\* initial value onwards and after every mutation of its value (pointer input
\* or a write to the bound variable), the stored value lies in [min, max].
C14_StoredValueInRange ==
    (widget = "Slider" /\ slider.min_value < slider.max_value)
        => slider.variable \in slider.min_value..slider.max_value

\* C15: constructing a Slider with min >= max fails; no Slider instance with
\* min >= max exists in any reachable state.
C15_MinBelowMax ==
    widget = "Slider" => slider.min_value < slider.max_value

\* C16: on an enabled Slider every value mutation caused by pointer-down or
\* pointer-drag produces exactly one write of the bound variable, including
\* the initial jump on pointer-down, and a pointer-down or drag that leaves the
\* value as it is produces none; pointer-up, and pointer movement with no drag
\* in progress, produce none and leave the value alone.
C16_OneWritePerMutation ==
    /\ [][(/\ widget = "Slider" /\ slider.enabled
            /\ \/ ev'.kind = "pointer_down"
               \/ ev'.kind = "pointer_move" /\ slider.dragging)
            => slider'.writes = (IF slider'.variable # slider.variable THEN 1 ELSE 0)]_vars
    /\ [][(/\ widget = "Slider"
            /\ \/ ev'.kind = "pointer_up"
               \/ ev'.kind = "pointer_move" /\ ~slider.dragging)
            => slider'.writes = 0 /\ slider'.variable = slider.variable]_vars

C16_Witness ==
    /\ widget = "Slider"
    /\ ev.kind = "pointer_down"
    /\ slider.enabled /\ slider.dragging
    /\ slider.writes = 1
    /\ slider.min_value = 0 /\ slider.max_value = 2
    /\ slider.variable = 1

\* C17: for a Slider with range [min,max] and every integer v in that range, a
\* pointer-down at the x position the slider maps v to sets the value to v,
\* with exactly one change notification when v differs from the old value,
\* for every track width.
C17_RoundTrip ==
    [][(/\ widget = "Slider" /\ ev'.kind = "pointer_down"
        /\ slider.enabled /\ slider.min_value < slider.max_value)
        => \A v \in slider.min_value..slider.max_value :
              ev'.x = Slider_value_to_x(slider, v)
                => /\ slider'.variable = v
                   /\ slider'.writes = (IF v # slider.variable THEN 1 ELSE 0)]_vars

\* C18: for any paint target whose width < 8 or height < 8 a paint is a no-op
\* that touches nothing on the surface: no item is created and no existing
\* item is removed (stated here for the Card of either platform).
C18_SmallTargetUntouched ==
    [][(widget = "Card" /\ ev'.kind = "resize"
        /\ (card'.width < 8 \/ card'.height < 8))
        => card'.items = card.items]_vars

\* The items a call of the painter added to a canvas of the paint record.
NewItems(canvas) == SubSeq(canvas.items, Len(paint.before) + 1, Len(canvas.items))

\* C19: for every requested radius (negative and oversized ones included) and
\* every rect, the effective corner radius r the painter uses satisfies
\* 0 <= r <= min(width, height) / 2, and r <= requested radius when the request
\* is non-negative; the corner arcs it draws have exactly that radius.
C19_RadiusClamped ==
    (widget = "Painter" /\ paint.done) =>
        LET a == paint.args
            r == EffectiveRadius(a)
            side == Min2(a.x2 - a.x1, a.y2 - a.y1)
            drawn == NewItems(paint.first)
        IN  /\ 0 <= r
            /\ 2 * r <= side
            /\ a.radius >= 0 => r <= a.radius
            /\ \A i \in 1..Len(drawn) :
                  drawn[i].op = "arc" =>
                      /\ drawn[i].x2 - drawn[i].x1 = 2 * r
                      /\ drawn[i].y2 - drawn[i].y1 = 2 * r
                      /\ 0 < r /\ 2 * r <= side

C19_Witness ==
    /\ widget = "Painter" /\ paint.done
    /\ paint.args.radius = MaxRadius
    /\ paint.args.x2 - paint.args.x1 = 5
    /\ paint.args.y2 - paint.args.y1 = MaxSide
    /\ \E i \in 1..Len(paint.first.items) :
          /\ paint.first.items[i].op = "arc"
          /\ paint.first.items[i].x2 - paint.first.items[i].x1 = 4

C21_ContentRegion ==
    (widget = "Card" /\ ev.kind = "resize") =>
        /\ card.content_width = card.width - 2 * card.padding
        /\ card.content_height = card.height - 2 * card.padding

\* C22 as stated: an open popup is sized for min(maxRows, candidateCount) rows,
\* maxRows being the max_popup_rows given to the constructor.
C22_RowsAsGiven ==
    geometry.open => geometry.rows = Min2(geometry.given, geometry.values_len)

\* C22: an open popup is sized for min(maxRows, candidateCount) rows, where
\* maxRows is the larger of 3 and the max_popup_rows given to the constructor,
\* for every given value >= 1 and every non-empty candidate list.
C22_Rows ==
    geometry.open =>
        geometry.rows = Min2(Max2(3, geometry.given), geometry.values_len)

C22_Witness ==
    /\ geometry.open
    /\ geometry.given = 1
    /\ geometry.values_len = 4
    /\ geometry.rows = 3

\* C23: wherever the dropdown is and however wide it and its host are, an open
\* popup has x >= 8 and x + popup_width <= host_width.
C23_HorizontalClamp ==
    geometry.open =>
        /\ geometry.place_x >= 8
        /\ geometry.place_x + geometry.place_width <= geometry.host_width

\* C24: an open popup is directly below the dropdown if it fits in the host's
\* height there (the fit is read with the 8 px margin _open_popup keeps);
\* otherwise it is above the dropdown: its bottom edge at or above the
\* dropdown's top edge and its top edge inside the host window.
C24_BelowElseAbove ==
    geometry.open =>
        LET below == geometry.y + geometry.height + 4
        IN  IF below + geometry.place_height <= geometry.host_height - 8
            THEN geometry.place_y = below
            ELSE /\ geometry.place_y + geometry.place_height <= geometry.y
                 /\ 0 <= geometry.place_y
                 /\ geometry.place_y < geometry.host_height

\* C25: a keyboard activation (Space or Return) on an enabled Button invokes
\* the command exactly once and leaves hovered and pressed as they were; the
\* Button is not made Pressed by it.
C25_KeyboardActivation ==
    [][(widget = "Button" /\ ev'.kind = "key" /\ button.enabled)
        => /\ button'.calls = 1
           /\ button'.hovered = button.hovered
           /\ button'.pressed = button.pressed]_vars

\* C26: in every reachable state of a Button or Dropdown, pressed = true
\* implies hovered = true, also after set_enabled calls made while the
\* pointer is inside the control.
C26_PressedImpliesHovered ==
    /\ widget = "Button" => (button.pressed => button.hovered)
    /\ widget = "Dropdown" => (dropdown.pressed => dropdown.hovered)

\* C27: a Button or Dropdown in Pressed (enabled, hovered, pressed) that gets
\* a pointer-up outside its bounds is left in Idle (hovered and pressed both
\* false) and its action is not fired.
C27_ReleaseOutsideToIdle ==
    /\ [][(widget = "Button" /\ button.enabled /\ button.hovered /\ button.pressed
            /\ ev'.kind = "release" /\ ~ReleaseInside(button, ev'))
            => /\ ~button'.hovered
               /\ ~button'.pressed
               /\ button'.calls = 0]_vars
    /\ [][(widget = "Dropdown" /\ dropdown.enabled /\ dropdown.hovered
            /\ dropdown.pressed
            /\ ev'.kind = "release" /\ ~ReleaseInside(dropdown, ev'))
            => /\ ~dropdown'.hovered
               /\ ~dropdown'.pressed
               /\ dropdown'.popup = dropdown.popup]_vars

\* C28: a pointer-leave takes a Button or Dropdown in Pressed to Idle and
\* cancels the press: a later pointer-up does not fire the action, also when
\* the pointer has come back and the release is inside the bounds, unless a
\* new press was accepted after the leave.  (Only a press sets pressed, and a
\* release that finds pressed false fires nothing.)
C28_LeaveCancelsPress ==
    /\ [][(widget = "Button" /\ button.enabled /\ button.hovered /\ button.pressed
            /\ ev'.kind = "leave")
            => /\ button'.enabled /\ ~button'.hovered /\ ~button'.pressed
               /\ button'.calls = 0]_vars
    /\ [][(widget = "Button" /\ ~button.pressed /\ button'.pressed)
            => ev'.kind = "press"]_vars
    /\ [][(widget = "Button" /\ ~button.pressed /\ ev'.kind = "release")
            => button'.calls = 0]_vars
    /\ [](widget = "Button" /\ cycle # <<>>
            /\ cycle[Len(cycle)] \in {"release_in", "release_out"}
            /\ (\E i \in 1..Len(cycle) : cycle[i] = "leave")
            => button.calls = 0)
    /\ [][(widget = "Dropdown" /\ dropdown.enabled /\ dropdown.hovered
            /\ dropdown.pressed /\ ev'.kind = "leave")
            => /\ dropdown'.enabled /\ ~dropdown'.hovered /\ ~dropdown'.pressed
               /\ dropdown'.popup = dropdown.popup]_vars
    /\ [][(widget = "Dropdown" /\ ~dropdown.pressed /\ dropdown'.pressed)
            => ev'.kind = "press"]_vars
    /\ [][(widget = "Dropdown" /\ ~dropdown.pressed /\ ev'.kind = "release")
            => dropdown'.popup = dropdown.popup]_vars

C28_Witness ==
    /\ widget = "Button"
    /\ cycle = <<"press", "leave", "enter", "release_in">>
    /\ ev.kind = "release"
    /\ button.enabled /\ button.hovered
    /\ button.calls = 0

\* C29: a Button in Pressed that gets a pointer-up inside its bounds fires the
\* action, and when the release handler has returned the Button is in Hovered
\* (enabled, hovered, not pressed).
C29_ReleaseInsideToHovered ==
    [][(widget = "Button" /\ button.enabled /\ button.hovered /\ button.pressed
         /\ ev'.kind = "release" /\ ReleaseInside(button, ev'))
        => /\ button'.calls = 1
           /\ button'.enabled /\ button'.hovered /\ ~button'.pressed]_vars

\* C30: every handler or mutator that changes a control's enabled, hovered,
\* pressed or popup-open state repaints after its last state change: whenever
\* a handler has returned, what is painted is the control's current state,
\* never an intermediate one (and a control of paintable size is painted).
C30_PaintedIsCurrent ==
    /\ widget = "Button" =>
        /\ button.painted.drawn =>
            /\ button.painted.enabled = button.enabled
            /\ button.painted.hovered = button.hovered
            /\ button.painted.pressed = button.pressed
        /\ (button.width >= 8 /\ button.height >= 8) => button.painted.drawn
    /\ (widget = "Dropdown" /\ dropdown.exists) =>
        /\ dropdown.painted.drawn =>
            /\ dropdown.painted.enabled = dropdown.enabled
            /\ dropdown.painted.hovered = dropdown.hovered
            /\ dropdown.painted.pressed = dropdown.pressed
            /\ dropdown.painted.open = (dropdown.popup # "None")
        /\ (dropdown.width >= 16 /\ dropdown.height >= 16) => dropdown.painted.drawn
    /\ widget = "Slider" =>
        /\ slider.painted.drawn => slider.painted.enabled = slider.enabled
        /\ (slider.width >= 30 /\ slider.height >= 14) => slider.painted.drawn

\* A release that clears pressed, repaints, and then opens the popup.
C30_Witness ==
    /\ widget = "Dropdown"
    /\ ev.kind = "release"
    /\ dropdown.popup # "None"
    /\ dropdown.hovered
    /\ dropdown.painted.drawn
    /\ dropdown.painted.open
    /\ ~dropdown.painted.pressed

\* The outline items among those a painter call added: the gradient's spans
\* are blends of the two fill colours, the outline has the border colour.
OutlineItems(canvas) ==
    SelectSeq(NewItems(canvas), LAMBDA it : it.color = paint.args.border_color)

\* C31: on both platforms the painter draws an outline if and only if
\* borderWidth > 0: no outline item with borderWidth = 0; four quarter-arcs
\* and four straight edges with borderWidth > 0 and an effective radius > 0;
\* a single plain rectangle with an effective radius <= 0.
C31_OutlineIffBorder ==
    (widget = "Painter" /\ paint.done) =>
        LET a == paint.args
            r == EffectiveRadius(a)
            outline == OutlineItems(paint.first)
            Count(op) == Cardinality({i \in 1..Len(outline) : outline[i].op = op})
        IN  /\ a.border_width = 0 => outline = <<>>
            /\ (a.border_width > 0 /\ r > 0) =>
                  /\ Len(outline) = 8
                  /\ Count("arc") = 4
                  /\ Count("line") = 4
            /\ (a.border_width > 0 /\ r <= 0) =>
                  /\ Len(outline) = 1
                  /\ outline[1].op = "rectangle"

\* C32: the speech render is never invoked while a paint or state-transition
\* handler of a control (a Button's pointer-up handler, say) is still running:
\* no handler returns having invoked the render.
C32_NoRenderInHandler ==
    widget = "App" => app.renders = 0

\* C33: while a popup is open, a pointer press on the Dropdown itself or on a
\* descendant of the popup does not close the popup through the outside-click
\* listener; so a click on the open Dropdown (press, then release inside) ends
\* with the popup closed: the press leaves it open and the release closes it.
C33_OwnPressKeepsPopup ==
    /\ [][(widget = "Dropdown" /\ dropdown.popup # "None" /\ ev'.kind = "press")
            => /\ dropdown'.popup = dropdown.popup
               /\ dropdown'.root_click_bindid = dropdown.root_click_bindid]_vars
    /\ [][(widget = "Dropdown" /\ dropdown.popup # "None"
            /\ ev'.kind = "root_click" /\ ev'.target = "popup_child")
            => dropdown'.popup = dropdown.popup]_vars
    /\ [][(widget = "Dropdown" /\ dropdown.popup # "None"
            /\ dropdown.enabled /\ dropdown.pressed
            /\ ev'.kind = "release" /\ ReleaseInside(dropdown, ev'))
            => dropdown'.popup = "None"]_vars

C33_Witness ==
    /\ widget = "Dropdown"
    /\ ev.kind = "press" /\ ev.num = 1
    /\ dropdown.pressed
    /\ dropdown.popup # "None"

\* C34: while a popup is open its rows are the Dropdown's current candidate
\* list, also after set_values with the popup open; so a selection never
\* stores a value that is not in the current candidate list, and a selection
\* that resolves to no valid row leaves the value as it was and still closes
\* the popup.
C34_RowsAreCandidates ==
    /\ []((widget = "Dropdown" /\ dropdown.popup # "None")
            => dropdown.lb_rows = dropdown.values)
    /\ [][(widget = "Dropdown" /\ ev'.kind = "listbox_select"
            /\ dropdown.popup # "None")
            => /\ \/ dropdown'.variable = dropdown.variable
                  \/ dropdown'.variable \in Range(dropdown.values)
               /\ dropdown'.values = dropdown.values
               /\ dropdown'.popup = "None"]_vars
    /\ [][(widget = "Dropdown" /\ ev'.kind = "listbox_select"
            /\ dropdown.popup # "None"
            /\ ~(/\ 0 <= SelectedRow(dropdown, ev'.y)
                 /\ SelectedRow(dropdown, ev'.y) < Len(dropdown.values)))
            => /\ dropdown'.variable = dropdown.variable
               /\ dropdown'.popup = "None"]_vars

\* A selection on a popup emptied by set_values while it was open.
C34_Witness ==
    /\ widget = "Dropdown"
    /\ ev.kind = "listbox_select"
    /\ dropdown.values = <<>>
    /\ dropdown.popup = "None"
    /\ dropdown.host_popups = 0

\* C35: every set_enabled call on a Button or Dropdown, with True as with
\* False, resets hovered and pressed to false; so a press followed by any
\* set_enabled call (set_enabled(False) then set_enabled(True) included) and
\* then a release inside the bounds does not fire the action.
C35_SetEnabledResets ==
    /\ [][(widget = "Button" /\ ev'.kind = "set_enabled")
            => /\ button'.enabled = ev'.on
               /\ ~button'.hovered /\ ~button'.pressed
               /\ button'.calls = 0]_vars
    /\ [][(widget = "Dropdown" /\ ev'.kind = "set_enabled")
            => /\ dropdown'.enabled = ev'.on
               /\ ~dropdown'.hovered /\ ~dropdown'.pressed]_vars
    /\ [](widget = "Button" /\ cycle # <<>>
            /\ cycle[Len(cycle)] = "release_in"
            /\ (\E i \in 1..Len(cycle) : cycle[i] \in {"enable", "disable"})
            => button.calls = 0)
    /\ [][(widget = "Dropdown" /\ ev.kind = "set_enabled" /\ ev'.kind = "release")
            => /\ dropdown'.popup = dropdown.popup
               /\ dropdown'.variable = dropdown.variable]_vars

C35_Witness ==
    /\ widget = "Button"
    /\ cycle = <<"press", "disable", "enable", "release_in">>
    /\ ev.kind = "release"
    /\ button.enabled
    /\ button.calls = 0

\* C36: a pointer-move changes a Slider's value only while a drag is in
\* progress: after a pointer-down accepted while enabled and before the next
\* pointer-up or set_enabled call.  After set_enabled(False), set_enabled(True)
\* has interrupted a drag, moves are ignored until a new pointer-down.
C36_MoveOnlyWhileDragging ==
    /\ [][(widget = "Slider" /\ ev'.kind = "pointer_move"
            /\ (slider'.variable # slider.variable \/ slider'.writes # 0))
            => slider.enabled /\ slider.dragging]_vars
    /\ [][(widget = "Slider" /\ ~slider.dragging /\ slider'.dragging)
            => ev'.kind = "pointer_down" /\ slider.enabled]_vars
    /\ [][(widget = "Slider" /\ ev'.kind \in {"pointer_up", "set_enabled"})
            => ~slider'.dragging]_vars
    /\ [][(widget = "Slider" /\ ev.kind = "set_enabled" /\ ev'.kind = "pointer_move")
            => /\ slider'.variable = slider.variable
               /\ slider'.writes = 0
               /\ ~slider'.dragging]_vars

\* A move over another value's position, ignored by an enabled slider that is
\* not being dragged.
C36_Witness ==
    /\ widget = "Slider"
    /\ ev.kind = "pointer_move"
    /\ slider.enabled /\ ~slider.dragging
    /\ slider.min_value < slider.max_value
    /\ slider.variable # Slider_x_to_value(slider, ev.x)
    /\ slider.writes = 0

\* All five controls of the desktop application have the enabled flag on.
AllFive(flags, on) ==
    /\ flags.generate = on /\ flags.export = on /\ flags.clear = on
    /\ flags.rate_slider = on /\ flags.voice_combo = on

\* C37 as stated: in the desktop application preview_audio and export_audio
\* disable all five controls before the render starts and re-enable all five
\* when it ends, whether it succeeds or raises; after either operation
\* returns no control is left disabled and no popup is open that was open
\* before it.
C37_BusyAroundOperation ==
    (widget = "App" /\ platform = "desktop"
        /\ app.op \in {"preview_audio", "export_audio"}) =>
        /\ app.renders > 0 => AllFive(app.at_render, FALSE)
        /\ AllFive(App_enabled(app), TRUE)
        /\ ~(app.popup_at_call /\ app.voice_combo.popup # "None")

\* C37: in the desktop application preview_audio and export_audio disable all
\* five controls before the render starts and re-enable all five when it ends,
\* whether it succeeds or raises; after either operation returns no control is
\* left disabled, and after one that rendered no popup is open that was open
\* before it.
C37_BusyAroundRender ==
    (widget = "App" /\ platform = "desktop"
        /\ app.op \in {"preview_audio", "export_audio"}) =>
        /\ app.renders > 0 =>
            /\ app.renders = 1
            /\ AllFive(app.at_render, FALSE)
            /\ app.status \in {"success", "error"}
            /\ ~(app.popup_at_call /\ app.voice_combo.popup # "None")
        /\ AllFive(App_enabled(app), TRUE)

\* An export whose render raised, started with the popup open.
C37_Witness ==
    /\ widget = "App" /\ platform = "desktop"
    /\ app.op = "export_audio"
    /\ app.renders = 1
    /\ app.status = "error"
    /\ app.popup_at_call
    /\ app.voice_combo.popup = "None"
    /\ AllFive(App_enabled(app), TRUE)

\* C38: in the Windows application whose speech engine failed to initialise,
\* the Generate and Export buttons are disabled at startup and in every
\* reachable state, and the render is never invoked, whatever pointer and
\* keyboard events follow.
C38_NoEngineNoRender ==
    (widget = "App" /\ platform = "windows" /\ ~app.engine) =>
        /\ ~app.buttons["generate"].enabled
        /\ ~app.buttons["export"].enabled
        /\ app.buttons["generate"].calls = 0
        /\ app.buttons["export"].calls = 0
        /\ app.renders = 0

\* A keyboard activation of the disabled Generate button.
C38_Witness ==
    /\ widget = "App" /\ platform = "windows" /\ ~app.engine
    /\ ev.kind = "key" /\ ev.target = "generate"
    /\ ~app.buttons["generate"].enabled
    /\ app.buttons["clear"].enabled
    /\ app.renders = 0

\* C39: after an accepted press on a Button or Dropdown, a release fires the
\* action if and only if its coordinates satisfy 0 <= x <= width and
\* 0 <= y <= height of the widget at release time, both ends included.  (A
\* Dropdown's action, the popup toggle, shows when it has candidates.)
C39_InclusiveBounds ==
    /\ [][(widget = "Button" /\ button.enabled /\ button.pressed
            /\ ev'.kind = "release")
            => (button'.calls = 1 <=>
                    /\ 0 <= ev'.x /\ ev'.x <= button.width
                    /\ 0 <= ev'.y /\ ev'.y <= button.height)]_vars
    /\ [][(widget = "Button" /\ ev'.kind = "release") => button'.calls <= 1]_vars
    /\ [][(widget = "Dropdown" /\ dropdown.enabled /\ dropdown.pressed
            /\ dropdown.values # <<>>
            /\ ev'.kind = "release")
            => (dropdown'.popup # dropdown.popup <=>
                    /\ 0 <= ev'.x /\ ev'.x <= dropdown.width
                    /\ 0 <= ev'.y /\ ev'.y <= dropdown.height)]_vars

\* A release on the bottom-right corner pixel that opened the popup.
C39_Witness ==
    /\ widget = "Dropdown"
    /\ ev.kind = "release"
    /\ dropdown.width = 20 /\ dropdown.height = 20
    /\ ev.x = dropdown.width /\ ev.y = dropdown.height
    /\ dropdown.popup # "None"

\* ==================================================================== spec
Init ==
    /\ \E c \in Controls : widget = c[1] /\ platform = c[2]
    /\ ev = NoEvent
    /\ cycle = <<>>
    /\ button = Button_init
    /\ IF widget = "Dropdown" THEN dropdown \in Dropdown_init ELSE dropdown = NoDropdown
    /\ IF widget = "Slider" THEN slider \in Slider_init ELSE slider = NoSlider
    /\ card = NoCard
    /\ paint = NoPaint
    /\ geometry = NoGeometry
    /\ app = NoApp

Next ==
    \/ ButtonSetEnabled
    \/ ButtonEnter
    \/ ButtonLeave
    \/ ButtonPress
    \/ ButtonRelease
    \/ ButtonKey
    \/ ButtonResize
    \/ DropdownSetValues
    \/ DropdownSetEnabled
    \/ DropdownDestroy
    \/ DropdownAppClose
    \/ DropdownPress
    \/ DropdownRelease
    \/ DropdownEnter
    \/ DropdownLeave
    \/ DropdownEscape
    \/ DropdownKey
    \/ DropdownResize
    \/ ListboxHover
    \/ ListboxEscape
    \/ ListboxSelect
    \/ RootClick
    \/ SliderSetEnabled
    \/ SliderPointerDown
    \/ SliderPointerMove
    \/ SliderPointerUp
    \/ SliderResize
    \/ SliderVariableWrite

Spec == Init /\ [][Next]_vars
====
